---- MODULE Spec2Model ----
(***************************************************************************)
(* CircleAPI (src/src/circle.py): a synchronous wrapper around the         *)
(* CircleCI REST API.  The client holds a token and a base URL, builds a   *)
(* URL, hands one request to the HTTP transport (requests.get/post/delete) *)
(* and returns the decoded JSON, a json.dumps rendering of it, or a        *)
(* curated OrderedDict / list.                                             *)
(*                                                                         *)
(* Python values are modelled as tagged records [t |-> tag, v |-> value];  *)
(* dicts with string keys and string values (query parameters, headers)    *)
(* are TLA+ functions.  The transport is the environment: every request    *)
(* is answered with a status code and a JSON body drawn from small sets.   *)
(***************************************************************************)
EXTENDS Integers, Sequences, FiniteSets, TLC

VARIABLES
    token,            \* self._token
    base_url,         \* self._base_url
    defaults,         \* the shared default-argument dicts (params={}, headers={})
    transport_calls,  \* number of requests handed to the transport so far
    call,             \* the most recent call: operation and arguments
    response,         \* the transport's answer to that call's request
    requests,         \* the requests that call handed to the transport
    result            \* how that call ended: returned value or raised exception

vars == <<token, base_url, defaults, transport_calls, call, response, requests, result>>

-----------------------------------------------------------------------------
(* Bounds *)

\* longest raw build list in a response body
MaxBuilds == 2
\* longest raw build list when every combination of build fields is drawn
MaxRecords == 1
\* cap on the transport_calls counter
MaxRequests == 2

-----------------------------------------------------------------------------
(* Python / JSON values *)

None == [t |-> "null"]
Str(s) == [t |-> "str", v |-> s]
IntV(n) == [t |-> "int", v |-> n]
Bool(b) == [t |-> "bool", v |-> b]
\* a list: v is the sequence of elements
List(s) == [t |-> "list", v |-> s]
\* a dict decoded from JSON: v is the sequence of <<key, value>> items
Dict(items) == [t |-> "dict", v |-> items]
\* collections.OrderedDict: v is the sequence of <<key, value>> in insertion order
OrderedDict(items) == [t |-> "OrderedDict", v |-> items]

\* a truth test that looks for None only
Truthy_not_none(x) == x.t # "null"

\* bool(x): Python truthiness, as used by `if x` and `x or y`
Truthy(x) ==
    CASE x.t = "null" -> FALSE
      [] x.t = "str" -> x.v # ""
      [] x.t = "int" -> x.v # 0
      [] x.t = "bool" -> x.v
      [] OTHER -> Len(x.v) > 0

\* d[key] on a dict value (every model body carries the keys the code reads)
GetItem(d, key) ==
    LET i == CHOOSE j \in 1..Len(d.v) : d.v[j][1] = key IN d.v[i][2]

\* key in d
HasKey(d, key) == \E i \in 1..Len(d.v) : d.v[i][1] = key

\* `for j in x`: the elements of a list, the keys of a dict
Iter(x) == IF x.t = "list" THEN x.v ELSE [i \in 1..Len(x.v) |-> Str(x.v[i][1])]

\* the exception that reading x[k] for the keys k raises, NoError when none does:
\* KeyError on a dict without the key, TypeError on a value that is no dict
SubscriptError(x, keys) ==
    IF x.t \notin {"dict", "OrderedDict"} THEN [type |-> "TypeError"]
    ELSE IF \E k \in keys : ~HasKey(x, k) THEN [type |-> "KeyError"]
    ELSE [type |-> "none"]

\* the exception a loop over x raises that reads these keys of every element
LoopError(x, keys) ==
    LET bad == {i \in 1..Len(Iter(x)) : SubscriptError(Iter(x)[i], keys).type # "none"}
    IN IF bad = {} THEN [type |-> "none"]
       ELSE SubscriptError(Iter(x)[CHOOSE i \in bad : \A j \in bad : i <= j], keys)

\* d.keys()
Keys(d) == [i \in 1..Len(d.v) |-> d.v[i][1]]

\* '{}'.format(x) for one value: str(x)
Format(x) ==
    CASE x.t = "null" -> "None"
      [] x.t = "str" -> x.v
      [] x.t = "int" -> ToString(x.v)
      [] x.t = "bool" -> (IF x.v THEN "True" ELSE "False")
      [] OTHER -> "?"

\* sep.join(seq) for a sequence of strings
RECURSIVE Join(_, _)
Join(sep, s) ==
    IF Len(s) = 0 THEN ""
    ELSE IF Len(s) = 1 THEN s[1]
    ELSE s[1] \o sep \o Join(sep, Tail(s))

\* ' ' * n
RECURSIVE Spaces(_)
Spaces(n) == IF n = 0 THEN "" ELSE " " \o Spaces(n - 1)

\* json.dumps(x, indent=indent) at nesting depth level (Python 2: the item
\* separator stays ', ' when an indent is given, the key separator is ': ')
RECURSIVE dumps(_, _, _)
dumps(x, indent, level) ==
    LET newline_indent == "\n" \o Spaces(indent * (level + 1))
        closing == "\n" \o Spaces(indent * level)
        item(i) == IF x.t = "list"
                   THEN dumps(x.v[i], indent, level + 1)
                   ELSE "\"" \o x.v[i][1] \o "\": " \o dumps(x.v[i][2], indent, level + 1)
    IN CASE x.t = "null" -> "null"
         [] x.t = "str" -> "\"" \o x.v \o "\""
         [] x.t = "int" -> ToString(x.v)
         [] x.t = "bool" -> (IF x.v THEN "true" ELSE "false")
         [] x.t = "list" ->
              IF Len(x.v) = 0 THEN "[]"
              ELSE "[" \o newline_indent
                   \o Join(", " \o newline_indent, [i \in 1..Len(x.v) |-> item(i)])
                   \o closing \o "]"
         [] OTHER ->
              IF Len(x.v) = 0 THEN "{}"
              ELSE "{" \o newline_indent
                   \o Join(", " \o newline_indent, [i \in 1..Len(x.v) |-> item(i)])
                   \o closing \o "}"

-----------------------------------------------------------------------------
(* dicts of strings: query parameters and headers *)

EmptyDict == <<>>

\* a.update(b): the receiver a afterwards; b is left as it was
dict_update(a, b) ==
    [k \in DOMAIN a \cup DOMAIN b |-> IF k \in DOMAIN b THEN b[k] ELSE a[k]]

\* urllib.urlencode(d): one key=value pair per item of d, in no fixed order
\* (the model's keys and values need no percent-quoting)
urlencode(d) == {<<k, d[k]>> : k \in DOMAIN d}

\* urlparse(self._base_url)
urlparse(u) ==
    IF u = "https://circleci.com/api/v1"
    THEN [scheme |-> "https", netloc |-> "circleci.com", path |-> "/api/v1"]
    ELSE [scheme |-> "", netloc |-> "", path |-> u]

\* the token pair left out of the query
new_params_without_token(params) == dict_update(EmptyDict, params)

\* the token layered over the caller's parameters
new_params_token_last(params) == dict_update(params, [k \in {"circle-token"} |-> token])

\* new_params after `new_params = {'circle-token': self._token}; new_params.update(params)`
new_params(params) == dict_update([k \in {"circle-token"} |-> token], params)

\* the token written into the dict that was passed in
params_after_build_url_in_place(params) ==
    dict_update(params, [k \in {"circle-token"} |-> token])

\* the dict passed as `params` after _build_url ran: update() changes its receiver only
params_after_build_url(params) == params

\* CircleAPI._build_url(endpoint, params): the ParseResult that urlunparse renders
build_url(endpoint, params) ==
    LET parsed_url == urlparse(base_url)
    IN [scheme |-> parsed_url.scheme, netloc |-> parsed_url.netloc,
        path |-> Join("/", <<parsed_url.path, endpoint>>),
        params |-> "", query |-> urlencode(new_params(params)), fragment |-> ""]

\* {'Content-Type': 'application/json', 'Accept': 'application/json'}
DefaultHeaders ==
    [k \in {"Content-Type", "Accept"} |-> "application/json"]

\* new_headers after new_headers.update(headers)
new_headers(headers) == dict_update(DefaultHeaders, headers)

\* Exception(u"Error sending <verb> request to {}".format(url))
RequestError(verb, url) ==
    [type |-> "Exception", text |-> "Error sending " \o verb \o " request to {}", url |-> url]

\* the headers _delete hands to requests.delete
delete_sent_headers(headers) == headers

\* a request as the transport receives it
Request(verb, url, headers, data) ==
    [verb |-> verb, url |-> url, headers |-> headers, data |-> data]

\* a status test that lets 400 itself through
Failed_above_400(resp) == resp.status > 400

\* the status test shared by the three verbs: `if r.status_code >= 400: raise`
Failed(resp) == resp.status >= 400

\* CircleAPI._get / _post / _delete: the request sent, and either the exception
\* raised or r.json(), which runs only when nothing was raised
get(endpoint, params, headers, resp) ==
    LET url == build_url(endpoint, params)
    IN [requests |-> <<Request("GET", url, new_headers(headers), None)>>,
        raised |-> Failed(resp),
        parsed |-> ~Failed(resp),
        error |-> RequestError("GET", url),
        json |-> resp.body]

post(endpoint, data, headers, resp) ==
    LET url == build_url(endpoint, defaults.build_url_params)
    IN [requests |-> <<Request("POST", url, new_headers(headers), data)>>,
        raised |-> Failed(resp),
        parsed |-> ~Failed(resp),
        error |-> RequestError("POST", url),
        json |-> resp.body]

delete(endpoint, headers, resp) ==
    LET url == build_url(endpoint, defaults.build_url_params)
    IN [requests |-> <<Request("DELETE", url, delete_sent_headers(headers), None)>>,
        raised |-> Failed(resp),
        parsed |-> ~Failed(resp),
        error |-> RequestError("DELETE", url),
        json |-> resp.body]

-----------------------------------------------------------------------------
(* Inputs: arguments of the calls and answers of the transport *)

Tokens == {"tok-A", "tok-B"}
Usernames == {"alice"}
Projects == {"web"}
BuildNums == {7}
Fingerprints == {"ab:cd"}
Branches == {"main"}
Statuses == {200, 399, 400, 404, 500}

\* every sequence over S of length at most n
SeqsUpTo(S, n) == UNION {[1..k -> S] : k \in 0..n}

\* GET /me
MeBody(name, emails, projects) ==
    Dict(<< <<"name", Str(name)>>, <<"all_emails", List(emails)>>,
            <<"sign_in_count", IntV(3)>>, <<"heroku_api_key", None>>,
            <<"containers", IntV(1)>>, <<"parallelism", IntV(1)>>,
            <<"login", Str("ann")>>, <<"admin", Bool(FALSE)>>,
            <<"projects", Dict(projects)>>, <<"plan", Str("free")>> >>)

MeBodies ==
    { MeBody("Ann", <<Str("a@x.io"), Str("ann@y.org")>>,
             << <<"https://github.com/alice/web", Dict(<<>>)>>,
                <<"https://github.com/alice/api", Dict(<<>>)>> >>),
      MeBody("", <<>>, <<>>) }

\* GET /projects
ProjectBody(username, reponame) ==
    Dict(<< <<"username", Str(username)>>, <<"reponame", Str(reponame)>>,
            <<"vcs_url", Str("https://github.com/" \o username \o "/" \o reponame)>> >>)

\* the project lists the transport answers GET /projects with
ProjectLists ==
    { List(<<>>), List(<<ProjectBody("a", "b")>>),
      List(<<ProjectBody("a", "b"), ProjectBody("alice", "web")>>) }

\* one build record of GET /project/:username/:project and GET /recent-builds
BuildRecord(build_num, author_name, author_email, vcs_tag, branch) ==
    Dict(<< <<"build_num", IntV(build_num)>>, <<"author_name", author_name>>,
            <<"author_email", author_email>>, <<"vcs_tag", vcs_tag>>,
            <<"branch", branch>>, <<"queued_at", Str("2015-03-02T13:05:11.000Z")>>,
            <<"why", Str("github")>>,
            <<"build_url", Str("https://circleci.com/gh/alice/web/" \o ToString(build_num))>>,
            <<"outcome", Str("success")>>, <<"status", Str("fixed")>> >>)

AuthorNames == {Str("Ann"), None}
AuthorEmails == {Str("a@x.io"), Str(""), None}
VcsTags == {Str("v1.0"), Str(""), None}
BranchValues == {Str("main"), Str(""), None}

\* every combination of the fields the summary branches on
AllBuilds ==
    { BuildRecord(1, n, e, g, b) :
        n \in AuthorNames, e \in AuthorEmails, g \in VcsTags, b \in BranchValues }

\* the two builds of the spec's example, oldest first; build 2 is a tagged one
SampleBuilds ==
    { BuildRecord(1, Str("Ann"), Str("a@x.io"), None, Str("main")),
      BuildRecord(2, None, None, Str("v1.0"), None) }

\* any other endpoint
PlainBodies == { Dict(<< <<"status", Str("ok")>> >>), List(<<>>) }

\* the body the service sends with a failure status
ErrorBody == Dict(<< <<"message", Str("Not Found")>> >>)

\* what the transport may answer: a success status with one of the endpoint's
\* bodies, a failure status with the error body, or 200 with a body of an
\* unexpected shape
Responses(bodies) ==
    [status : {c \in Statuses : c < 400}, body : bodies]
    \cup [status : {c \in Statuses : c >= 400}, body : {ErrorBody}]
    \cup [status : {200}, body : {ErrorBody}]

\* caller-supplied query parameters and headers of the primitive calls
ParamDicts ==
    { EmptyDict, [k \in {"limit"} |-> "5"],
      [k \in {"limit", "circle-token"} |-> IF k = "limit" THEN "5" ELSE "tok-Z"] }
HeaderDicts ==
    { EmptyDict, [k \in {"Accept"} |-> "text/plain"], [k \in {"X-Trace"} |-> "1"] }
Payloads == { None, Str("{}") }

-----------------------------------------------------------------------------
(* The record of a call *)

Args(endpoint, username, project, build_num, fingerprint, branch) ==
    [endpoint |-> endpoint, username |-> username, project |-> project,
     build_num |-> build_num, fingerprint |-> fingerprint, branch |-> branch]

Call(op, args, verbose, params, headers, data) ==
    [op |-> op, args |-> args, verbose |-> verbose, params |-> params,
     headers |-> headers, data |-> data]

NoCall == Call("", Args("", "", "", 0, "", ""), FALSE, EmptyDict, EmptyDict, None)
NoResponse == [status |-> 0, body |-> None]
NoError == [type |-> "none"]
\* parsed: whether r.json() ran on the response (Finish sets it)
NoResult == [outcome |-> "none", value |-> None, error |-> NoError, parsed |-> FALSE]
Returned(value) ==
    [outcome |-> "returned", value |-> value, error |-> NoError, parsed |-> FALSE]
Raised(error) ==
    [outcome |-> "raised", value |-> None, error |-> error, parsed |-> FALSE]

\* NotImplementedError(u"This method has not yet been implemented.")
NotImplementedError ==
    [type |-> "NotImplementedError", text |-> "This method has not yet been implemented."]

Init ==
    /\ token \in Tokens
    /\ base_url = "https://circleci.com/api/v1"
    /\ defaults = [build_url_params |-> EmptyDict, get_params |-> EmptyDict,
                   get_headers |-> EmptyDict, post_headers |-> EmptyDict,
                   delete_headers |-> EmptyDict]
    /\ transport_calls = 0
    /\ call = NoCall
    /\ response = NoResponse
    /\ requests = <<>>
    /\ result = NoResult

-----------------------------------------------------------------------------
(* Reshaping of the decoded JSON *)

\* the curated record of me()
me_resp(r_json) ==
    OrderedDict(<<
        <<"Name", GetItem(r_json, "name")>>,
        <<"Emails", Str(Join(", ", [i \in 1..Len(GetItem(r_json, "all_emails").v) |->
                                       GetItem(r_json, "all_emails").v[i].v]))>>,
        <<"Sign-In Count", GetItem(r_json, "sign_in_count")>>,
        <<"Heroku API Key", GetItem(r_json, "heroku_api_key")>>,
        <<"Containers", GetItem(r_json, "containers")>>,
        <<"Parallelism", GetItem(r_json, "parallelism")>>,
        <<"Username", GetItem(r_json, "login")>>,
        <<"Admin", GetItem(r_json, "admin")>>,
        <<"Projects", Str(Join(", ", Keys(GetItem(r_json, "projects"))))>> >>)

\* ['{}/{}'.format(j['username'], j['reponame']) for j in r_json]
projects_resp(r_json) ==
    List([i \in 1..Len(r_json.v) |->
            Str(Format(GetItem(r_json.v[i], "username")) \o "/"
                \o Format(GetItem(r_json.v[i], "reponame")))])

\* dp.parse(queued_at).astimezone(tz.tzlocal()), the local zone being UTC
local_time(queued_at) ==
    IF queued_at.v = "2015-03-02T13:05:11.000Z"
    THEN [a |-> "Mon", b |-> "Mar", d |-> 2, Y |-> 2015, H |-> 13, M |-> 5, Z |-> "UTC"]
    ELSE [a |-> "Thu", b |-> "Jan", d |-> 1, Y |-> 1970, H |-> 0, M |-> 0, Z |-> "UTC"]

\* %d, %I, %M: two digits
Pad2(n) == IF n < 10 THEN "0" \o ToString(n) ELSE ToString(n)

\* dt.strftime('%a, %b %d, %Y %I:%M%p %Z')
strftime(dt) ==
    dt.a \o ", " \o dt.b \o " " \o Pad2(dt.d) \o ", " \o ToString(dt.Y) \o " "
    \o Pad2(IF dt.H % 12 = 0 THEN 12 ELSE dt.H % 12) \o ":" \o Pad2(dt.M)
    \o (IF dt.H < 12 THEN "AM" ELSE "PM") \o " " \o dt.Z

\* resp.append(o)
insert_back(resp, o) == Append(resp, o)

\* resp.insert(0, o)
insert_front(resp, o) == <<o>> \o resp

\* the author formatted whether or not there is an email
project_builds_author_unconditional(build) ==
    Str(Format(GetItem(build, "author_name")) \o " <"
        \o Format(GetItem(build, "author_email")) \o ">")

\* the value project_builds stores under 'Author '
project_builds_author(build) ==
    IF Truthy(GetItem(build, "author_email"))
    THEN Str(Format(GetItem(build, "author_name")) \o " <"
             \o Format(GetItem(build, "author_email")) \o ">")
    ELSE GetItem(build, "author_email")

\* the OrderedDict o that project_builds fills for one build
project_builds_o(build) ==
    OrderedDict(
        << <<"Build# ", GetItem(build, "build_num")>>,
           <<"Author ", project_builds_author(build)>> >>
        \o (IF Truthy(GetItem(build, "vcs_tag"))
            THEN << <<"Tag    ", GetItem(build, "vcs_tag")>> >>
            ELSE << <<"Branch ", IF Truthy(GetItem(build, "branch"))
                                 THEN GetItem(build, "branch") ELSE Str("Unknown")>> >>)
        \o << <<"Queued ", Str(strftime(local_time(GetItem(build, "queued_at"))))>>,
              <<"Trigger", GetItem(build, "why")>>,
              <<"URL    ", GetItem(build, "build_url")>>,
              <<"Result ", GetItem(build, "outcome")>> >>)

\* the loop of project_builds over r_json[i..], resp being the list so far
RECURSIVE project_builds_loop(_, _, _)
project_builds_loop(r_json, i, resp) ==
    IF i > Len(r_json.v) THEN resp
    ELSE project_builds_loop(r_json, i + 1,
                             insert_front(resp, project_builds_o(r_json.v[i])))

project_builds_resp(r_json) == List(project_builds_loop(r_json, 1, <<>>))

\* the OrderedDict o that recent_builds fills for one build
recent_builds_o(build) ==
    LET author_email == GetItem(build, "author_email")
        vcs_tag == GetItem(build, "vcs_tag")
        branch == GetItem(build, "branch")
        dt == local_time(GetItem(build, "queued_at"))
        author == IF Truthy(author_email)
                  THEN Str(Format(GetItem(build, "author_name")) \o " <"
                           \o Format(author_email) \o ">")
                  ELSE author_email
        ref == IF Truthy(vcs_tag)
               THEN <<"Tag    ", vcs_tag>>
               ELSE <<"Branch ", IF Truthy(branch) THEN branch ELSE Str("Unknown")>>
    IN OrderedDict(
        << <<"Build# ", GetItem(build, "build_num")>>, <<"Author ", author>>, ref,
           <<"Queued ", Str(strftime(dt))>>, <<"Trigger", GetItem(build, "why")>>,
           <<"URL    ", GetItem(build, "build_url")>>,
           <<"Result ", GetItem(build, "outcome")>> >>)

\* the loop of recent_builds
RECURSIVE recent_builds_loop(_, _, _)
recent_builds_loop(r_json, i, resp) ==
    IF i > Len(r_json.v) THEN resp
    ELSE recent_builds_loop(r_json, i + 1,
                            insert_front(resp, recent_builds_o(r_json.v[i])))

recent_builds_resp(r_json) == List(recent_builds_loop(r_json, 1, <<>>))

\* the decoded JSON handed back as it is
verbose_resp_passthrough(r_json) == r_json

\* `return json.dumps(r_json, indent=2)` of the verbose branches
verbose_resp(r_json) == Str(dumps(r_json, 2, 0))

-----------------------------------------------------------------------------
(* The operations *)

\* the keys the reshaping code reads
MeKeys ==
    {"name", "all_emails", "sign_in_count", "heroku_api_key", "containers",
     "parallelism", "login", "admin", "projects"}
ProjectKeys == {"username", "reponame"}
BuildKeys ==
    {"build_num", "author_name", "author_email", "vcs_tag", "branch", "queued_at",
     "why", "build_url", "outcome"}

\* how the non-verbose reshaping ends: the value, or the lookup failure that an
\* unexpected body raises unguarded
Reshaped(error, value) ==
    IF error.type = "none" THEN Returned(value) ELSE Raised(error)

\* a call that went through one of the verbs: r is what get/post/delete gave,
\* outcome how the operation ends when r raised nothing
Finish(c, resp, r, outcome, dflt) ==
    /\ call' = c
    /\ response' = resp
    /\ requests' = r.requests
    /\ transport_calls' = transport_calls + Len(r.requests)
    /\ result' = [(IF r.raised THEN Raised(r.error) ELSE outcome)
                     EXCEPT !.parsed = r.parsed]
    /\ defaults' = dflt
    /\ UNCHANGED <<token, base_url>>

\* self._get(endpoint), self._post(endpoint), self._delete(endpoint): the
\* omitted arguments are the shared default dicts
get_default(endpoint, resp) ==
    get(endpoint, defaults.get_params, defaults.get_headers, resp)
post_default(endpoint, resp) == post(endpoint, None, defaults.post_headers, resp)
delete_default(endpoint, resp) == delete(endpoint, defaults.delete_headers, resp)

\* the default dicts after a call that passed _get's default params on to
\* _build_url, and after one that let _build_url use its own default
after_get_default == [defaults EXCEPT !.get_params = params_after_build_url(@)]
after_build_url_default ==
    [defaults EXCEPT !.build_url_params = params_after_build_url(@)]

NoArgs == Args("", "", "", 0, "", "")
PublicCall(op, args, verbose) == Call(op, args, verbose, EmptyDict, EmptyDict, None)

me(verbose, resp) ==
    LET r == get_default("me", resp)
    IN /\ transport_calls < MaxRequests
       /\ Finish(PublicCall("me", NoArgs, verbose), resp, r,
                 IF verbose THEN Returned(verbose_resp(r.json))
                 ELSE Reshaped(SubscriptError(r.json, MeKeys), me_resp(r.json)),
                 after_get_default)

projects(verbose, resp) ==
    LET r == get_default("projects", resp)
    IN /\ transport_calls < MaxRequests
       /\ Finish(PublicCall("projects", NoArgs, verbose), resp, r,
                 IF verbose THEN Returned(verbose_resp(r.json))
                 ELSE Reshaped(LoopError(r.json, ProjectKeys), projects_resp(r.json)),
                 after_get_default)

project_builds(username, project, verbose, resp) ==
    LET r == get_default("project/" \o username \o "/" \o project, resp)
    IN /\ transport_calls < MaxRequests
       /\ Finish(PublicCall("project_builds",
                            Args("", username, project, 0, "", ""), verbose),
                 resp, r,
                 IF verbose THEN Returned(verbose_resp(r.json))
                 ELSE Reshaped(LoopError(r.json, BuildKeys),
                               project_builds_resp(r.json)),
                 after_get_default)

recent_builds(verbose, resp) ==
    LET r == get_default("recent-builds", resp)
    IN /\ transport_calls < MaxRequests
       /\ Finish(PublicCall("recent_builds", NoArgs, verbose), resp, r,
                 IF verbose THEN Returned(verbose_resp(r.json))
                 ELSE Reshaped(LoopError(r.json, BuildKeys),
                               recent_builds_resp(r.json)),
                 after_get_default)

\* 'project/{username}/{project}/{build_num}'.format(**locals())
build_path(username, project, build_num) ==
    "project/" \o username \o "/" \o project \o "/" \o ToString(build_num)

\* 'project/{username}/{project}/checkout-key'.format(**locals())
checkout_key_path(username, project) ==
    "project/" \o username \o "/" \o project \o "/checkout-key"

build_details(username, project, build_num, resp) ==
    LET r == get_default(build_path(username, project, build_num), resp)
    IN /\ transport_calls < MaxRequests
       /\ Finish(PublicCall("build_details",
                            Args("", username, project, build_num, "", ""), FALSE),
                 resp, r, Returned(r.json), after_get_default)

artifacts(username, project, build_num, resp) ==
    LET r == get_default(build_path(username, project, build_num) \o "/artifacts", resp)
    IN /\ transport_calls < MaxRequests
       /\ Finish(PublicCall("artifacts",
                            Args("", username, project, build_num, "", ""), FALSE),
                 resp, r, Returned(r.json), after_get_default)

retry_build(username, project, build_num, resp) ==
    LET r == post_default(build_path(username, project, build_num) \o "/retry", resp)
    IN /\ transport_calls < MaxRequests
       /\ Finish(PublicCall("retry_build",
                            Args("", username, project, build_num, "", ""), FALSE),
                 resp, r, Returned(r.json), after_build_url_default)

cancel_build(username, project, build_num, resp) ==
    LET r == post_default(build_path(username, project, build_num) \o "/cancel", resp)
    IN /\ transport_calls < MaxRequests
       /\ Finish(PublicCall("cancel_build",
                            Args("", username, project, build_num, "", ""), FALSE),
                 resp, r, Returned(r.json), after_build_url_default)

list_checkout_keys(username, project, resp) ==
    LET r == get_default(checkout_key_path(username, project), resp)
    IN /\ transport_calls < MaxRequests
       /\ Finish(PublicCall("list_checkout_keys",
                            Args("", username, project, 0, "", ""), FALSE),
                 resp, r, Returned(r.json), after_get_default)

checkout_key(username, project, fingerprint, resp) ==
    LET r == get_default(checkout_key_path(username, project) \o "/" \o fingerprint, resp)
    IN /\ transport_calls < MaxRequests
       /\ Finish(PublicCall("checkout_key",
                            Args("", username, project, 0, fingerprint, ""), FALSE),
                 resp, r, Returned(r.json), after_get_default)

delete_checkout_key(username, project, fingerprint, resp) ==
    LET r == delete_default(checkout_key_path(username, project) \o "/" \o fingerprint,
                            resp)
    IN /\ transport_calls < MaxRequests
       /\ Finish(PublicCall("delete_checkout_key",
                            Args("", username, project, 0, fingerprint, ""), FALSE),
                 resp, r, Returned(r.json), after_build_url_default)

clear_cache(username, project, resp) ==
    LET r == delete_default("project/" \o username \o "/" \o project \o "/build-cache",
                            resp)
    IN /\ transport_calls < MaxRequests
       /\ Finish(PublicCall("clear_cache",
                            Args("", username, project, 0, "", ""), FALSE),
                 resp, r, Returned(r.json), after_build_url_default)

\* a stub that returns None without raising
Stub_silent(op, args) ==
    /\ call' = PublicCall(op, args, FALSE)
    /\ response' = NoResponse
    /\ requests' = <<>>
    /\ result' = [outcome |-> "returned", value |-> None, error |-> NoError,
                  parsed |-> FALSE]
    /\ UNCHANGED <<token, base_url, defaults, transport_calls>>

\* the body shared by the stubbed operations: the raise is their only statement
Stub(op, args) ==
    /\ call' = PublicCall(op, args, FALSE)
    /\ response' = NoResponse
    /\ requests' = <<>>
    /\ result' = Raised(NotImplementedError)
    /\ UNCHANGED <<token, base_url, defaults, transport_calls>>

ssh_users(username, project, build_num) ==
    Stub("ssh_users", Args("", username, project, build_num, "", ""))

new_build(username, project, branch) ==
    Stub("new_build", Args("", username, project, 0, "", branch))

create_ssh(username, project) ==
    Stub("create_ssh", Args("", username, project, 0, "", ""))

create_checkout_key(username, project) ==
    Stub("create_checkout_key", Args("", username, project, 0, "", ""))

add_circle_key == Stub("add_circle_key", NoArgs)

add_heroku_key == Stub("add_heroku_key", NoArgs)

\* the three verbs called with arguments of the caller's own
call_get(endpoint, params, headers, resp) ==
    LET r == get(endpoint, params, headers, resp)
    IN /\ transport_calls < MaxRequests
       /\ Finish(Call("_get", Args(endpoint, "", "", 0, "", ""), FALSE,
                      params, headers, None),
                 resp, r, Returned(r.json), defaults)

call_post(endpoint, data, headers, resp) ==
    LET r == post(endpoint, data, headers, resp)
    IN /\ transport_calls < MaxRequests
       /\ Finish(Call("_post", Args(endpoint, "", "", 0, "", ""), FALSE,
                      EmptyDict, headers, data),
                 resp, r, Returned(r.json), after_build_url_default)

call_delete(endpoint, headers, resp) ==
    LET r == delete(endpoint, headers, resp)
    IN /\ transport_calls < MaxRequests
       /\ Finish(Call("_delete", Args(endpoint, "", "", 0, "", ""), FALSE,
                      EmptyDict, headers, None),
                 resp, r, Returned(r.json), after_build_url_default)

-----------------------------------------------------------------------------
(* Specifications *)

Endpoints == {"me"}
PlainResponses == Responses(PlainBodies)

Next ==
    \/ \E v \in BOOLEAN, resp \in Responses(MeBodies) : me(v, resp)
    \/ \E v \in BOOLEAN, resp \in Responses(ProjectLists) :
          projects(v, resp)
    \/ \E u \in Usernames, p \in Projects, v \in BOOLEAN,
          resp \in Responses({List(s) : s \in SeqsUpTo(SampleBuilds, MaxBuilds)}) :
          project_builds(u, p, v, resp)
    \/ \E v \in BOOLEAN,
          resp \in Responses({List(s) : s \in SeqsUpTo(SampleBuilds, MaxBuilds)}) :
          recent_builds(v, resp)
    \/ \E u \in Usernames, p \in Projects, n \in BuildNums, resp \in PlainResponses :
          build_details(u, p, n, resp)
    \/ \E u \in Usernames, p \in Projects, n \in BuildNums, resp \in PlainResponses :
          artifacts(u, p, n, resp)
    \/ \E u \in Usernames, p \in Projects, n \in BuildNums, resp \in PlainResponses :
          retry_build(u, p, n, resp)
    \/ \E u \in Usernames, p \in Projects, n \in BuildNums, resp \in PlainResponses :
          cancel_build(u, p, n, resp)
    \/ \E u \in Usernames, p \in Projects, resp \in PlainResponses :
          list_checkout_keys(u, p, resp)
    \/ \E u \in Usernames, p \in Projects, f \in Fingerprints, resp \in PlainResponses :
          checkout_key(u, p, f, resp)
    \/ \E u \in Usernames, p \in Projects, f \in Fingerprints, resp \in PlainResponses :
          delete_checkout_key(u, p, f, resp)
    \/ \E u \in Usernames, p \in Projects, resp \in PlainResponses :
          clear_cache(u, p, resp)
    \/ \E u \in Usernames, p \in Projects, n \in BuildNums : ssh_users(u, p, n)
    \/ \E u \in Usernames, p \in Projects, b \in Branches : new_build(u, p, b)
    \/ \E u \in Usernames, p \in Projects : create_ssh(u, p)
    \/ \E u \in Usernames, p \in Projects : create_checkout_key(u, p)
    \/ add_circle_key
    \/ add_heroku_key
    \/ \E e \in Endpoints, ps \in ParamDicts, hs \in HeaderDicts, resp \in PlainResponses :
          call_get(e, ps, hs, resp)
    \/ \E e \in Endpoints, d \in Payloads, hs \in HeaderDicts, resp \in PlainResponses :
          call_post(e, d, hs, resp)
    \/ \E e \in Endpoints, hs \in HeaderDicts, resp \in PlainResponses :
          call_delete(e, hs, resp)

Spec == Init /\ [][Next]_vars

\* The reshaping of build lists on every combination of the fields it branches
\* on: the transport answers each request with one fixed successful response.
InitBuilds ==
    /\ token \in Tokens
    /\ base_url = "https://circleci.com/api/v1"
    /\ defaults = [build_url_params |-> EmptyDict, get_params |-> EmptyDict,
                   get_headers |-> EmptyDict, post_headers |-> EmptyDict,
                   delete_headers |-> EmptyDict]
    /\ transport_calls = 0
    /\ call = NoCall
    /\ response \in [status : {200}, body : {List(s) : s \in SeqsUpTo(AllBuilds, MaxRecords)}]
    /\ requests = <<>>
    /\ result = NoResult

NextBuilds ==
    \/ \E u \in Usernames, p \in Projects : project_builds(u, p, FALSE, response)
    \/ recent_builds(FALSE, response)

SpecBuilds == InitBuilds /\ [][NextBuilds]_vars

-----------------------------------------------------------------------------
(* Properties *)

\* the public operations that issue a request, and the stubbed ones
RequestOps ==
    {"me", "projects", "project_builds", "recent_builds", "build_details",
     "artifacts", "retry_build", "cancel_build", "list_checkout_keys",
     "checkout_key", "delete_checkout_key", "clear_cache"}
StubOps ==
    {"ssh_users", "new_build", "create_ssh", "create_checkout_key",
     "add_circle_key", "add_heroku_key"}
VerbOps == {"_get", "_post", "_delete"}
BuildOps == {"project_builds", "recent_builds"}

\* the values the query of url gives for key
QueryValues(url, key) == {kv[2] : kv \in {q \in url.query : q[1] = key}}

\* C1: every public operation that issues a request sends exactly one URL, and
\* that URL carries the query parameter circle-token with the client's token as
\* its only value, although the operation supplies no parameters.
C1_TokenInEveryUrl ==
    call.op \in RequestOps =>
        /\ Len(requests) = 1
        /\ QueryValues(requests[1].url, "circle-token") = {token}

\* C1 witness: a second call in a row, a DELETE operation, has sent its URL
C1_Witness ==
    /\ call.op = "clear_cache"
    /\ transport_calls = 2
    /\ Len(requests) = 1
    /\ <<"circle-token", token>> \in requests[1].url.query

\* C2: a status >= 400 ends the call in the request error carrying the URL that
\* was requested, with the body neither parsed nor returned and one request
\* sent; a status < 400 does not raise that error.
C2_FailureStatusRaises ==
    call.op \in RequestOps \cup VerbOps =>
        /\ Len(requests) = 1
        /\ response.status >= 400 =>
              /\ result.outcome = "raised"
              /\ result.error.type = "Exception"
              /\ result.error.url = requests[1].url
              /\ result.error.text
                   = "Error sending " \o requests[1].verb \o " request to {}"
              /\ ~result.parsed
              /\ result.value = None
        /\ response.status < 400 =>
              /\ result.error.type # "Exception"
              /\ result.parsed

\* C2 witness: a POST operation answered with status 400 itself
C2_Witness ==
    /\ call.op = "retry_build"
    /\ response.status = 400
    /\ result.outcome = "raised"
    /\ result.error.url = requests[1].url

\* C3: a stubbed operation raises the not-implemented error on every call, and
\* the number of requests made to the transport is the same after it as before.
C3_StubsRaiseWithoutRequest ==
    [][call'.op \in StubOps =>
          /\ result' = Raised(NotImplementedError)
          /\ requests' = <<>>
          /\ transport_calls' = transport_calls]_vars

\* C3 witness: a stub called after one real request; the count is still one
C3_Witness ==
    /\ call.op = "new_build"
    /\ transport_calls = 1
    /\ result.error.type = "NotImplementedError"

\* C4: the headers handed to the transport are the default set merged with the
\* caller's headers, the caller's value winning; with no caller headers every
\* verb, DELETE included, sends both default headers.
C4_HeadersMerged ==
    \A i \in 1..Len(requests) :
        LET sent == requests[i].headers
        IN /\ DOMAIN sent = DOMAIN DefaultHeaders \cup DOMAIN call.headers
           /\ \A k \in DOMAIN call.headers : sent[k] = call.headers[k]
           /\ \A k \in DOMAIN DefaultHeaders \ DOMAIN call.headers :
                 sent[k] = "application/json"

\* the operations with a verbose flag
VerboseOps == {"me", "projects", "project_builds", "recent_builds"}

\* the non-verbose result is the curated value of the operation
Curated ==
    CASE call.op = "me" ->
            /\ result.value.t = "OrderedDict"
            /\ Keys(result.value) = <<"Name", "Emails", "Sign-In Count",
                                      "Heroku API Key", "Containers", "Parallelism",
                                      "Username", "Admin", "Projects">>
      [] call.op = "projects" ->
            /\ result.value.t = "list"
            /\ \A i \in 1..Len(result.value.v) : result.value.v[i].t = "str"
      [] OTHER ->
            /\ result.value.t = "list"
            /\ \A i \in 1..Len(result.value.v) : result.value.v[i].t = "OrderedDict"

C6_SummariesReversed ==
    (call.op \in BuildOps /\ ~call.verbose /\ result.outcome = "returned") =>
        LET raw == response.body.v
            n == Len(raw)
            out == result.value.v
        IN /\ Len(out) = n
           /\ \A i \in 1..n :
                 /\ out[i] = project_builds_o(raw[n + 1 - i])
                 /\ out[i] = recent_builds_o(raw[n + 1 - i])

\* C6 witness: two different raw records came back in the opposite order
C6_Witness ==
    /\ call.op = "recent_builds"
    /\ ~call.verbose
    /\ result.outcome = "returned"
    /\ Len(response.body.v) = 2
    /\ response.body.v[1] # response.body.v[2]
    /\ GetItem(result.value.v[1], "Build# ") = GetItem(response.body.v[2], "build_num")
    /\ GetItem(result.value.v[2], "Build# ") = GetItem(response.body.v[1], "build_num")

\* a JSON string that is present and not empty
NonEmpty(x) == x # None /\ x # Str("")

\* the summaries of the last call paired with the raw records they come from
SummaryPairs ==
    IF call.op \in BuildOps /\ ~call.verbose /\ result.outcome = "returned"
    THEN {<<response.body.v[Len(response.body.v) + 1 - i], result.value.v[i]>> :
             i \in 1..Len(result.value.v)}
    ELSE {}

\* C7: every build summary has exactly one of Tag and Branch: Tag = vcs_tag and
\* no Branch when vcs_tag is set, otherwise no Tag and Branch = the raw branch,
\* or 'Unknown' when the branch is null or empty.
C7_TagOrBranch ==
    \A p \in SummaryPairs :
        LET build == p[1]
            o == p[2]
            vcs_tag == GetItem(build, "vcs_tag")
            branch == GetItem(build, "branch")
        IN /\ HasKey(o, "Tag    ") # HasKey(o, "Branch ")
           /\ Cardinality({i \in 1..Len(o.v) : o.v[i][1] \in {"Tag    ", "Branch "}}) = 1
           /\ NonEmpty(vcs_tag) =>
                 /\ HasKey(o, "Tag    ")
                 /\ GetItem(o, "Tag    ") = vcs_tag
           /\ ~NonEmpty(vcs_tag) =>
                 /\ HasKey(o, "Branch ")
                 /\ GetItem(o, "Branch ")
                      = IF NonEmpty(branch) THEN branch ELSE Str("Unknown")

\* C7 witness: a record with an empty tag and a null branch gave Branch = Unknown
C7_Witness ==
    \E p \in SummaryPairs :
        /\ GetItem(p[1], "vcs_tag") = Str("")
        /\ GetItem(p[1], "branch") = None
        /\ HasKey(p[2], "Branch ")
        /\ GetItem(p[2], "Branch ") = Str("Unknown")

\* 'author_name <author_email>' as str.format renders it (a null name as None)
NameAndEmail(build) ==
    Str((IF GetItem(build, "author_name") = None THEN "None"
         ELSE GetItem(build, "author_name").v)
        \o " <" \o GetItem(build, "author_email").v \o ">")

\* C8 as claimed: the author field is the empty string whenever author_email is
\* empty (null or ''), and 'author_name <author_email>' whenever it is not.
C8_AuthorEmptyString ==
    \A p \in SummaryPairs :
        LET author_email == GetItem(p[1], "author_email")
        IN GetItem(p[2], "Author ")
             = IF NonEmpty(author_email) THEN NameAndEmail(p[1]) ELSE Str("")

\* C8 as amended: the author field is the raw author_email value itself
\* whenever author_email is empty (the empty string for '', null for null),
\* whatever author_name is, and 'author_name <author_email>' whenever it is
\* not; a 'name <>' string is never produced.
C8_AuthorIsRawEmailWhenEmpty ==
    \A p \in SummaryPairs :
        LET author_email == GetItem(p[1], "author_email")
            author == GetItem(p[2], "Author ")
        IN /\ author_email = Str("") => author = Str("")
           /\ author_email = None => author = None
           /\ NonEmpty(author_email) => author = NameAndEmail(p[1])
           /\ \A n \in {"Ann", "None", ""} : author # Str(n \o " <>")

\* C8 witness: a record with a name and an empty-string email gave author ''
C8_Witness ==
    \E p \in SummaryPairs :
        /\ GetItem(p[1], "author_name") = Str("Ann")
        /\ GetItem(p[1], "author_email") = Str("")
        /\ GetItem(p[2], "Author ") = Str("")

\* C9: the query is the pair circle-token = token with the caller's parameters
\* layered on top: every caller key carries the caller's value, a caller's
\* circle-token replaces the token; only GET forwards caller parameters, POST
\* and DELETE send the token as the only query parameter.
C9_CallerParamsOnTop ==
    \A i \in 1..Len(requests) :
        LET url == requests[i].url
            given == IF requests[i].verb = "GET" THEN call.params ELSE EmptyDict
        IN /\ {q[1] : q \in url.query} = {"circle-token"} \cup DOMAIN given
           /\ \A k \in DOMAIN given : QueryValues(url, k) = {given[k]}
           /\ "circle-token" \notin DOMAIN given =>
                 QueryValues(url, "circle-token") = {token}
           /\ requests[i].verb \in {"POST", "DELETE"} =>
                 url.query = {<<"circle-token", token>>}

\* C9 witness: a GET whose caller supplied circle-token sent the caller's value
C9_Witness ==
    /\ call.op = "_get"
    /\ "circle-token" \in DOMAIN call.params
    /\ Len(requests) = 1
    /\ QueryValues(requests[1].url, "circle-token") = {"tok-Z"}
    /\ token # "tok-Z"

\* C10: no call changes the token, the base URL or the shared default dicts,
\* which stay as construction left them, and a call repeated with the same
\* arguments and the same response builds the same request and ends the same.
C10_NothingKeptBetweenCalls ==
    /\ [](/\ base_url = "https://circleci.com/api/v1"
          /\ \A d \in DOMAIN defaults : defaults[d] = EmptyDict)
    /\ [][/\ token' = token
          /\ base_url' = base_url
          /\ defaults' = defaults
          /\ (call' = call /\ response' = response) =>
                (requests' = requests /\ result' = result)]_vars

\* C10 witness: a second request, made with caller parameters and headers,
\* returned and the default dicts are still empty
C10_Witness ==
    /\ transport_calls = 2
    /\ call.op = "_get"
    /\ call.params # EmptyDict
    /\ call.headers # EmptyDict
    /\ result.outcome = "returned"
    /\ defaults.get_params = EmptyDict
    /\ defaults.get_headers = EmptyDict

====
